---- MODULE Spec2Model ----
(***************************************************************************)
(* F1 Cars API (index.js): an Express application that mediates between    *)
(* HTTP callers, a hosted identity provider and a hosted relational store. *)
(*                                                                         *)
(* The state is what lives outside a single request: the wall clock, the   *)
(* provider's accounts, the profiles and f1_cars tables, and (as history)  *)
(* the tokens that login has handed out.  `last` is the request/response   *)
(* exchange that the latest step completed, with the external calls that   *)
(* request made.  Every route handler is one action: the middleware chain  *)
(* (authenticateToken, asyncHandler, the two trailing app.use handlers)    *)
(* is part of it.  Handlers are taken one at a time: a request starts when *)
(* no exchange is open, and Deliver closes the exchange.                   *)
(*                                                                         *)
(* Text that the code inspects character by character (email, password,    *)
(* name, the provider's sign-in failure message) is a sequence of          *)
(* one-character strings; text that is only passed through is a string.    *)
(***************************************************************************)
EXTENDS Integers, Sequences, FiniteSets

VARIABLES now, accounts, profiles, cars, issued, last

vars == <<now, accounts, profiles, cars, issued, last>>

(***************************************************************************)
(* Bounds of the model.                                                    *)
(***************************************************************************)
\* the clock advances at most MaxTicks times (by TickSeconds each time)
MaxTicks == 2
\* login stops handing out tokens once MaxIssued distinct ones exist
MaxIssued == 2

(***************************************************************************)
(* Program constants.                                                      *)
(***************************************************************************)
\* jwt.sign(..., { expiresIn: '1h' })
ExpiresIn == 3600
\* const JWT_SECRET = process.env.JWT_SECRET || 'changeme'
JWT_SECRET == "changeme"
\* a key other than JWT_SECRET, as a forger would have to use
OtherSecret == "not-the-secret"
\* process.env.NODE_ENV, as the process file sets it by default
NODE_ENV == "development"
\* the quantum of the clock: half the lifetime of a token
TickSeconds == ExpiresIn \div 2

(***************************************************************************)
(* Character-level text.                                                   *)
(***************************************************************************)
UpperChars == <<"A","B","C","D","E","F","G","H","I","J","K","L","M",
                "N","O","P","Q","R","S","T","U","V","W","X","Y","Z">>
LowerChars == <<"a","b","c","d","e","f","g","h","i","j","k","l","m",
                "n","o","p","q","r","s","t","u","v","w","x","y","z">>
DigitChars == {"0","1","2","3","4","5","6","7","8","9"}

IsUpper(c) == \E i \in 1..Len(UpperChars) : UpperChars[i] = c
IsLower(c) == \E i \in 1..Len(LowerChars) : LowerChars[i] = c
IsDigit(c) == c \in DigitChars

\* String.prototype.toLowerCase, one character
LowerOf(c) ==
  IF IsUpper(c)
    THEN LowerChars[CHOOSE i \in 1..Len(UpperChars) : UpperChars[i] = c]
    ELSE c

\* String.prototype.toLowerCase
toLowerCase(s) == [i \in 1..Len(s) |-> LowerOf(s[i])]

\* String.prototype.includes
includes(s, sub) ==
  \E i \in 0..(Len(s) - Len(sub)) :
    \A j \in 1..Len(sub) : s[i + j] = sub[j]

\* the needle of msg.includes('confirm')
ConfirmWord == <<"c","o","n","f","i","r","m">>

\* positions of character c in s
Positions(s, c) == {i \in 1..Len(s) : s[i] = c}

(***************************************************************************)
(* Validation schemas (Joi).                                               *)
(***************************************************************************)
\* Joi.string().email(): one "@", a non-empty local part, and a domain of at
\* least two non-empty dot-separated segments
EmailShape(s) ==
  /\ Cardinality(Positions(s, "@")) = 1
  /\ LET at == CHOOSE i \in Positions(s, "@") : TRUE
         dots == {i \in Positions(s, ".") : i > at}
     IN  /\ at > 1
         /\ at < Len(s)
         /\ dots # {}
         /\ \A d \in dots : d > at + 1 /\ d < Len(s) /\ (d + 1) \notin dots

\* Joi.string().min(lo).max(hi)
LengthBetween(s, lo, hi) == Len(s) >= lo /\ Len(s) <= hi

\* Joi.string().pattern(/[A-Z]/).pattern(/[a-z]/).pattern(/[0-9]/)
HasUpperLowerDigit(s) ==
  /\ \E i \in 1..Len(s) : IsUpper(s[i])
  /\ \E i \in 1..Len(s) : IsLower(s[i])
  /\ \E i \in 1..Len(s) : IsDigit(s[i])

\* signupSchema.validate(body) reports no error
signupSchema(body) ==
  /\ DOMAIN body = {"email", "password", "name"}
  /\ EmailShape(body.email)
  /\ LengthBetween(body.password, 8, 100)
  /\ HasUpperLowerDigit(body.password)
  /\ LengthBetween(body.name, 2, 100)

\* loginSchema.validate(body) reports no error
loginSchema(body) ==
  /\ DOMAIN body = {"email", "password"}
  /\ EmailShape(body.email)
  /\ LengthBetween(body.password, 8, 100)

(***************************************************************************)
(* Response envelopes.                                                     *)
(***************************************************************************)
\* a JavaScript undefined in a place where the code puts text
Undefined == "undefined"
\* data = null
NullData == [kind |-> "null"]

\* sendSuccess(res, data, message, status)
sendSuccess(data, message, status) ==
  [status |-> status,
   body |-> [success |-> TRUE, message |-> message, data |-> data]]

\* sendError(res, status, code, message, details)
sendError(status, code, message, details) ==
  [status |-> status,
   body |-> [success |-> FALSE,
             error |-> [code |-> code, message |-> message, details |-> details]]]

\* no response written yet
NoResp == [status |-> 0, body |-> [none |-> TRUE]]

(***************************************************************************)
(* Tokens (jsonwebtoken) and the Authorization header.                     *)
(***************************************************************************)
\* req.user before authentication
NoUser == [none |-> TRUE]

\* jwt.sign({id, email, role}, secret, {expiresIn: '1h'}) at clock time t
jwtSign(id, email, role, secret, t) ==
  [kind |-> "jwt", id |-> id, email |-> email, role |-> role,
   iat |-> t, exp |-> t + ExpiresIn, sig |-> secret]

\* jwt.verify(token, secret) at clock time t: the decoded payload, or the
\* message of the error it throws.  jsonwebtoken decodes, then checks the
\* signature, then the expiry (clockTimestamp >= exp is expired).
jwtVerify(token, secret, t) ==
  IF ~(Len(token) = 1 /\ token[1].kind = "jwt")
    THEN [ok |-> FALSE, message |-> "jwt malformed"]
  ELSE IF token[1].sig # secret
    THEN [ok |-> FALSE, message |-> "invalid signature"]
  ELSE IF t >= token[1].exp
    THEN [ok |-> FALSE, message |-> "jwt expired"]
  ELSE [ok |-> TRUE,
        claims |-> [id |-> token[1].id, email |-> token[1].email,
                    role |-> token[1].role, iat |-> token[1].iat,
                    exp |-> token[1].exp]]

\* A header value is a sequence of items: a space, or a run of non-space text
\* (a scheme word, a signed token, or text that is no token at all).
SP == [kind |-> "space"]
Word(w) == [kind |-> "word", text |-> w]
Garbage == [kind |-> "garbage"]

\* String.prototype.split(' ')
RECURSIVE split(_)
split(h) ==
  IF \A i \in 1..Len(h) : h[i].kind # "space"
    THEN <<h>>
    ELSE LET i == CHOOSE k \in 1..Len(h) :
                    /\ h[k].kind = "space"
                    /\ \A j \in 1..(k - 1) : h[j].kind # "space"
         IN  <<SubSeq(h, 1, i - 1)>> \o split(SubSeq(h, i + 1, Len(h)))

\* (req.headers.authorization || '').split(' ')[1]; an absent element and
\* the empty string are both falsy and both shown as <<>>
BearerPart(hdr) == IF Len(split(hdr)) >= 2 THEN split(hdr)[2] ELSE <<>>

\* authenticateToken as it would be with jwt.decode in place of jwt.verify:
\* the payload is read, the signature and the expiry are not checked
authenticateTokenDecodeOnly(hdr, t) ==
  LET token == BearerPart(hdr)
  IN  IF token = <<>>
        THEN [next |-> FALSE, user |-> NoUser,
              resp |-> sendError(401, "UNAUTHORIZED", "Authentication required",
                                 Undefined)]
      ELSE IF Len(token) = 1 /\ token[1].kind = "jwt"
        THEN [next |-> TRUE,
              user |-> [id |-> token[1].id, email |-> token[1].email,
                        role |-> token[1].role, iat |-> token[1].iat,
                        exp |-> token[1].exp],
              resp |-> NoResp]
      ELSE [next |-> FALSE, user |-> NoUser,
            resp |-> sendError(403, "INVALID_TOKEN", "Invalid or expired token",
                               "jwt malformed")]

\* authenticateToken(req, res, next) at clock time t: whether next() is
\* called, req.user, and the response written otherwise
authenticateToken(hdr, t) ==
  LET token == BearerPart(hdr)
      v == jwtVerify(token, JWT_SECRET, t)
  IN  IF token = <<>>
        THEN [next |-> FALSE, user |-> NoUser,
              resp |-> sendError(401, "UNAUTHORIZED", "Authentication required",
                                 Undefined)]
      ELSE IF v.ok
        THEN [next |-> TRUE, user |-> v.claims, resp |-> NoResp]
      ELSE [next |-> FALSE, user |-> NoUser,
            resp |-> sendError(403, "INVALID_TOKEN", "Invalid or expired token",
                               v.message)]

(***************************************************************************)
(* Sample inputs.                                                          *)
(***************************************************************************)
EmailGood == <<"a","@","b",".","c","o","m">>
EmailBad == <<"a","b",".","c","o","m">>
\* the password of the documentation's examples: valid for both schemas
PwGood == <<"H","a","r","s","h","#","0","1","3">>
\* long enough, but no upper-case letter and no digit: valid for login only
PwNoUpper == <<"w","r","o","n","g","p","a","s","s">>
\* too short for both schemas and for the provider
PwShort == <<"A","b","1">>
NameGood == <<"H","a","r","s","h">>
NameShort == <<"H">>

SignupBodies ==
  { [email |-> EmailGood, password |-> PwGood, name |-> NameGood],
    [email |-> EmailGood, password |-> PwGood, name |-> NameShort],
    [email |-> EmailGood, password |-> PwShort, name |-> NameGood],
    [email |-> EmailBad, password |-> PwGood, name |-> NameGood],
    [password |-> PwGood, name |-> NameGood] }

LoginBodies ==
  { [email |-> EmailGood, password |-> PwGood],
    [email |-> EmailGood, password |-> PwNoUpper],
    [email |-> EmailGood, password |-> PwShort],
    [email |-> EmailBad, password |-> PwGood],
    [email |-> EmailGood] }

\* failure texts of the provider's signInWithPassword
MsgInvalidLogin == <<"I","n","v","a","l","i","d"," ","l","o","g","i","n"," ","c","r","e","d","e","n","t","i","a","l","s">>
MsgNotConfirmed == <<"E","m","a","i","l"," ","n","o","t"," ","c","o","n","f","i","r","m","e","d">>
MsgConfirmFirst == <<"C","o","n","f","i","r","m"," ","y","o","u","r"," ","e","m","a","i","l"," ","f","i","r","s","t">>
MsgRateLimit == <<"R","e","q","u","e","s","t"," ","r","a","t","e"," ","l","i","m","i","t"," ","r","e","a","c","h","e","d">>

Emails == {EmailGood}
UserIds == {"uid-1"}
\* data.user.id: the subject identifier the provider assigns to an email
UserId(email) == "uid-1"

Keys == {"RB20"}
CarName == "Red Bull RB20"

\* bodies of POST /cars
CreateBodies ==
  UNION { { [car_id |-> k, car_name |-> CarName, rpm_limit |-> 15000],
            [car_id |-> k, rpm_limit |-> 15000] } : k \in Keys }

\* bodies of PUT /cars/:id
UpdateBodies ==
  { [car_name |-> CarName, rpm_limit |-> 15000],
    [car_name |-> CarName, rpm_limit |-> -1] }

(***************************************************************************)
(* The identity provider (supabase.auth), as the handlers use it.          *)
(***************************************************************************)
NoAccount == [exists |-> FALSE]
Account(pw, confirmed) == [exists |-> TRUE, password |-> pw, confirmed |-> confirmed]

\* the body's field, or <<>> for a field the body lacks (undefined)
Field(body, f) == IF f \in DOMAIN body THEN body[f] ELSE <<>>

\* anonClient.auth.signUp({email, password}) can register the account
SignUpAcceptable(email, password) ==
  /\ email \in Emails
  /\ ~accounts[email].exists
  /\ Len(password) >= 6

\* what signUp may answer: "session" (account made, email confirmation off),
\* "nosession" (account made, confirmation pending), "error", or "throw"
\* (the promise rejects)
SignUpOutcomes(email, password) ==
  IF SignUpAcceptable(email, password)
    THEN {"session", "nosession", "error", "throw"}
    ELSE {"error", "throw"}

NoAuthErr == <<>>
SignInOk(email) ==
  [thrown |-> FALSE, authErr |-> FALSE, message |-> NoAuthErr,
   user |-> [id |-> UserId(email), email |-> email]]
SignInErr(msg) ==
  [thrown |-> FALSE, authErr |-> TRUE, message |-> msg, user |-> NoUser]
SignInNothing ==
  [thrown |-> FALSE, authErr |-> FALSE, message |-> NoAuthErr, user |-> NoUser]
\* the promise rejects
SignInThrow ==
  [thrown |-> TRUE, authErr |-> FALSE, message |-> NoAuthErr, user |-> NoUser]

\* what supabase.auth.signInWithPassword({email, password}) may answer: the
\* answer the account's state calls for, or a failure of the provider itself
SignInResults(email, password) ==
  ( IF email \in Emails /\ accounts[email].exists
         /\ accounts[email].password = password
      THEN IF accounts[email].confirmed
             THEN {SignInOk(email)}
             ELSE {SignInErr(MsgNotConfirmed)}
      ELSE {SignInErr(MsgInvalidLogin)} )
  \cup {SignInErr(MsgConfirmFirst), SignInErr(MsgRateLimit), SignInNothing,
        SignInThrow}

(***************************************************************************)
(* The tables (supabase.from).                                             *)
(***************************************************************************)
NoProfile == [exists |-> FALSE]
Profile(role) == [exists |-> TRUE, role |-> role]
\* role values of a profile row
Roles == {"USER", "ADMIN"}

NoRow == [absent |-> TRUE]
IsRow(r) == "absent" \notin DOMAIN r

\* the columns of an inserted or updated row other than its key
Columns(body) == [c \in DOMAIN body \ {"car_id"} |-> body[c]]
\* update(body): the body's columns replace the row's
Merge(row, body) ==
  [c \in DOMAIN row \cup DOMAIN body |->
     IF c \in DOMAIN body THEN body[c] ELSE row[c]]
\* a row as select() returns it
Selected(k, row) == [car_id |-> k, columns |-> row]

(***************************************************************************)
(* Requests and what a handler leaves behind.                              *)
(***************************************************************************)
NoBody == [none |-> TRUE]
NoKey == ""
\* an external call a handler awaited, and how it ended
Call(op, outcome) == [op |-> op, outcome |-> outcome]
\* a call that answered {error} with this message
Failed(op, message) == [op |-> op, outcome |-> "error", message |-> message]
\* how an awaited call on a table may end: data, {error}, or a rejection
StoreOutcomes == {"ok", "error", "throw"}
\* the outcomes to draw for a call that is made only when `reached` holds
OutcomesIf(reached) == IF reached THEN StoreOutcomes ELSE {"ok"}

\* app.use((err, req, res, next) => ...): the last error handler
errorMiddleware ==
  sendError(500, "SERVER_ERROR", "Something went wrong",
            IF NODE_ENV = "development" THEN "err.stack" ELSE Undefined)

\* app.use((req, res) => ...): no route matched
notFoundMiddleware(url) ==
  sendError(404, "NOT_FOUND", url, Undefined)

\* the tokens a caller can put in a header: those login handed out, one
\* signed with another key, and text that is no token; the headers: none,
\* the scheme word alone or with a space, the word with a token, a token
\* without the word
ForgedToken == jwtSign("uid-1", EmailGood, "ADMIN", OtherSecret, 0)
IssuedTokens == {e.token : e \in issued}
Headers ==
  {<<>>, <<Word("Bearer")>>, <<Word("Bearer"), SP>>,
   <<Word("Bearer"), SP, ForgedToken>>, <<Word("Bearer"), SP, Garbage>>}
  \cup {<<Word("Bearer"), SP, t>> : t \in IssuedTokens}
  \cup {<<t>> : t \in IssuedTokens}

\* the tables and accounts as the request found them
Snapshot ==
  [accounts |-> accounts, profiles |-> profiles, cars |-> cars, issued |-> issued]

\* the exchange a request leaves in `last`
Exchange(route, hdr, body, key, user, calls, resp) ==
  [route |-> route, hdr |-> hdr, body |-> body, key |-> key, time |-> now,
   user |-> user, pre |-> Snapshot, calls |-> calls, resp |-> resp]

Idle ==
  [route |-> "none", hdr |-> <<>>, body |-> NoBody, key |-> NoKey, time |-> 0,
   user |-> NoUser, pre |-> [none |-> TRUE], calls |-> <<>>, resp |-> NoResp]

(***************************************************************************)
(* GET /api/ and the routes without authentication.                        *)
(***************************************************************************)
\* app.get('/api/', ...): res.json({success, message, endpoints})
welcome ==
  [status |-> 200,
   body |-> [success |-> TRUE, message |-> "Welcome to the F1 Cars API",
             endpoints |-> <<"/api/auth/signup", "/api/auth/login", "/api/me",
                             "/api/cars", "/api/cars/:id", "/api/docs">>]]

PendingMessage ==
  "User registered. Please verify your email, then login (profile will be created on first login)."

\* POST /api/auth/signup: o is signUp's outcome, po the profile insert's.
\* The result holds the calls made, the response and the new tables.
signup(body, o, po) ==
  LET email == Field(body, "email")
      password == Field(body, "password")
      id == UserId(email)
      data == [kind |-> "user", id |-> id, email |-> email]
      made(confirmed) == [accounts EXCEPT ![email] = Account(password, confirmed)]
      \* the insert fails on its own when the row's key is taken
      ins == IF po = "ok" /\ profiles[id].exists THEN "error" ELSE po
  IN  IF o = "throw"
        THEN [calls |-> <<Call("auth.signUp", o)>>, resp |-> errorMiddleware,
              accounts |-> accounts, profiles |-> profiles]
      ELSE IF o = "error"
        THEN [calls |-> <<Call("auth.signUp", o)>>,
              resp |-> sendError(400, "SIGNUP_FAILED", "signErr.message", Undefined),
              accounts |-> accounts, profiles |-> profiles]
      ELSE IF o = "nosession"
        THEN [calls |-> <<Call("auth.signUp", o)>>,
              resp |-> sendSuccess(data, PendingMessage, 200),
              accounts |-> made(FALSE), profiles |-> profiles]
      ELSE IF ins = "throw"
        THEN [calls |-> <<Call("auth.signUp", o), Call("profiles.insert", ins)>>,
              resp |-> errorMiddleware,
              accounts |-> made(TRUE), profiles |-> profiles]
      ELSE IF ins = "error"
        THEN [calls |-> <<Call("auth.signUp", o), Call("profiles.insert", ins)>>,
              resp |-> sendError(500, "PROFILE_CREATE_FAILED", "profErr.message",
                                 Undefined),
              accounts |-> made(TRUE), profiles |-> profiles]
      ELSE [calls |-> <<Call("auth.signUp", o), Call("profiles.insert", ins)>>,
            resp |-> sendSuccess(data, "User registered", 200),
            accounts |-> made(TRUE),
            profiles |-> [profiles EXCEPT ![id] = Profile("USER")]]

\* loginRejected as it would be without toLowerCase()
loginRejectedCaseSensitive(msg) ==
  IF includes(msg, ConfirmWord)
    THEN sendError(401, "EMAIL_NOT_CONFIRMED",
                   "Please verify your email before logging in", Undefined)
    ELSE sendError(401, "INVALID_CREDENTIALS", "Invalid email or password", Undefined)

\* the 401 of a sign-in the provider did not grant; msg is
\* (authErr?.message || '')
loginRejected(msg) ==
  IF includes(toLowerCase(msg), ConfirmWord)
    THEN sendError(401, "EMAIL_NOT_CONFIRMED",
                   "Please verify your email before logging in", Undefined)
    ELSE sendError(401, "INVALID_CREDENTIALS", "Invalid email or password", Undefined)

\* roleClaim as it would be if the token always carried the default role
roleClaimDefaultOnly(profile) == "USER"

\* profile?.role || 'USER'
roleClaim(profile) ==
  IF profile.exists /\ profile.role # "" THEN profile.role ELSE "USER"

NoGrant == [none |-> TRUE]

\* POST /api/auth/login: si is signInWithPassword's answer, po the outcome
\* of the profile lookup.  The result holds the
\* calls made, the response and the token handed out, if any.
login(body, si, po) ==
  LET \* .single(): the row, or null with an error the handler ignores
      profile == IF po = "ok" THEN profiles[si.user.id] ELSE NoProfile
      token == jwtSign(si.user.id, si.user.email, roleClaim(profile),
                       JWT_SECRET, now)
      user == [id |-> si.user.id, email |-> si.user.email,
               role |-> roleClaim(profile)]
  IN  IF ~loginSchema(body)
        THEN [calls |-> <<>>,
              resp |-> sendError(400, "VALIDATION_ERROR", "error.details[0].message",
                                 Undefined),
              grant |-> NoGrant]
      ELSE IF si.thrown
        THEN [calls |-> <<Call("auth.signInWithPassword", "throw")>>,
              resp |-> errorMiddleware, grant |-> NoGrant]
      ELSE IF si.authErr \/ si.user = NoUser
        THEN [calls |-> <<Failed("auth.signInWithPassword", si.message)>>,
              resp |-> loginRejected(si.message), grant |-> NoGrant]
      ELSE IF po = "throw"
        THEN [calls |-> <<Call("auth.signInWithPassword", "ok"),
                          Call("profiles.select", po)>>,
              resp |-> errorMiddleware, grant |-> NoGrant]
      ELSE [calls |-> <<Call("auth.signInWithPassword", "ok"),
                        Call("profiles.select", po)>>,
            resp |-> sendSuccess([kind |-> "login", token |-> token, user |-> user],
                                 "Login successful", 200),
            grant |-> [token |-> token,
                       principal |-> [id |-> si.user.id, email |-> si.user.email,
                                      profile |-> profile]]]

(***************************************************************************)
(* The protected routes: authenticateToken, then the handler.              *)
(***************************************************************************)
\* what authenticateToken's refusal leaves: no call, its own response
Refused(a) == [user |-> NoUser, calls |-> <<>>, resp |-> a.resp, cars |-> cars]

\* .select(...).eq(...).single() on a row that may be absent; o is how the
\* query itself ended.  PostgREST answers a request for exactly one row that
\* finds none with an error.
single(row, o) ==
  IF o = "error"
    THEN [error |-> TRUE, message |-> "store failure", data |-> NoRow]
  ELSE IF ~IsRow(row)
    THEN [error |-> TRUE,
          message |-> "JSON object requested, multiple (or no) rows returned",
          data |-> NoRow]
  ELSE [error |-> FALSE, message |-> "", data |-> row]

\* GET /api/me
getMe(hdr, o) ==
  LET a == authenticateToken(hdr, now)
      row == IF profiles[a.user.id].exists
               THEN [role |-> profiles[a.user.id].role] ELSE NoRow
      r == single(row, o)
  IN  IF ~a.next THEN Refused(a)
      ELSE IF o = "throw"
        THEN [user |-> a.user, calls |-> <<Call("profiles.select", o)>>,
              resp |-> errorMiddleware, cars |-> cars]
      ELSE IF r.error
        THEN [user |-> a.user, calls |-> <<Call("profiles.select", o)>>,
              resp |-> sendError(500, "DB_ERROR", r.message, Undefined),
              cars |-> cars]
      ELSE [user |-> a.user, calls |-> <<Call("profiles.select", o)>>,
            resp |-> sendSuccess([kind |-> "me", id |-> a.user.id,
                                  email |-> a.user.email, role |-> r.data.role],
                                 "Me fetched", 200),
            cars |-> cars]

\* GET /api/cars
listCars(hdr, o) ==
  LET a == authenticateToken(hdr, now)
      rows == {Selected(k, cars[k]) : k \in {x \in Keys : IsRow(cars[x])}}
  IN  IF ~a.next THEN Refused(a)
      ELSE IF o = "throw"
        THEN [user |-> a.user, calls |-> <<Call("f1_cars.select", o)>>,
              resp |-> errorMiddleware, cars |-> cars]
      ELSE IF o = "error"
        THEN [user |-> a.user, calls |-> <<Call("f1_cars.select", o)>>,
              resp |-> sendError(500, "DB_ERROR", "store failure", Undefined),
              cars |-> cars]
      ELSE [user |-> a.user, calls |-> <<Call("f1_cars.select", o)>>,
            resp |-> sendSuccess([kind |-> "rows", rows |-> rows], "Cars fetched", 200),
            cars |-> cars]

\* POST /api/cars
createCar(hdr, body, o) ==
  LET a == authenticateToken(hdr, now)
      \* the insert fails on its own without a key or on a key already taken
      ins == IF o = "ok" /\ ("car_id" \notin DOMAIN body \/ IsRow(cars[body.car_id]))
               THEN "error" ELSE o
  IN  IF ~a.next THEN Refused(a)
      ELSE IF ins = "throw"
        THEN [user |-> a.user, calls |-> <<Call("f1_cars.insert", ins)>>,
              resp |-> errorMiddleware, cars |-> cars]
      ELSE IF ins = "error"
        THEN [user |-> a.user, calls |-> <<Call("f1_cars.insert", ins)>>,
              resp |-> sendError(500, "DB_ERROR", "store failure", Undefined),
              cars |-> cars]
      ELSE [user |-> a.user, calls |-> <<Call("f1_cars.insert", ins)>>,
            resp |-> sendSuccess([kind |-> "rows",
                                  rows |-> {Selected(body.car_id, Columns(body))}],
                                 "Car added successfully", 201),
            cars |-> [cars EXCEPT ![body.car_id] = Columns(body)]]

\* GET /api/cars/:id
getCar(hdr, key, o) ==
  LET a == authenticateToken(hdr, now)
      r == single(cars[key], o)
  IN  IF ~a.next THEN Refused(a)
      ELSE IF o = "throw"
        THEN [user |-> a.user, calls |-> <<Call("f1_cars.select", o)>>,
              resp |-> errorMiddleware, cars |-> cars]
      ELSE IF r.error
        THEN [user |-> a.user, calls |-> <<Call("f1_cars.select", o)>>,
              resp |-> sendError(500, "DB_ERROR", r.message, Undefined),
              cars |-> cars]
      ELSE IF ~IsRow(r.data)
        THEN [user |-> a.user, calls |-> <<Call("f1_cars.select", o)>>,
              resp |-> sendError(404, "NOT_FOUND", "Car not found", Undefined),
              cars |-> cars]
      ELSE [user |-> a.user, calls |-> <<Call("f1_cars.select", o)>>,
            resp |-> sendSuccess([kind |-> "rows", rows |-> {Selected(key, r.data)}],
                                 "Car details fetched", 200),
            cars |-> cars]

\* PUT /api/cars/:id
updateCar(hdr, key, body, o) ==
  LET a == authenticateToken(hdr, now)
      \* update(...).eq(...).select(): the rows changed, none for an absent key
      data == IF IsRow(cars[key])
                THEN {Selected(key, Merge(cars[key], body))} ELSE {}
  IN  IF ~a.next THEN Refused(a)
      ELSE IF o = "throw"
        THEN [user |-> a.user, calls |-> <<Call("f1_cars.update", o)>>,
              resp |-> errorMiddleware, cars |-> cars]
      ELSE IF o = "error"
        THEN [user |-> a.user, calls |-> <<Call("f1_cars.update", o)>>,
              resp |-> sendError(500, "DB_ERROR", "store failure", Undefined),
              cars |-> cars]
      ELSE IF data = {}
        THEN [user |-> a.user, calls |-> <<Call("f1_cars.update", o)>>,
              resp |-> sendError(404, "NOT_FOUND", "Car not found", Undefined),
              cars |-> cars]
      ELSE [user |-> a.user, calls |-> <<Call("f1_cars.update", o)>>,
            resp |-> sendSuccess([kind |-> "rows", rows |-> data], "Car updated", 200),
            cars |-> [cars EXCEPT ![key] = Merge(cars[key], body)]]

\* DELETE /api/cars/:id
deleteCar(hdr, key, o) ==
  LET a == authenticateToken(hdr, now)
  IN  IF ~a.next THEN Refused(a)
      ELSE IF o = "throw"
        THEN [user |-> a.user, calls |-> <<Call("f1_cars.delete", o)>>,
              resp |-> errorMiddleware, cars |-> cars]
      ELSE IF o = "error"
        THEN [user |-> a.user, calls |-> <<Call("f1_cars.delete", o)>>,
              resp |-> sendError(500, "DB_ERROR", "store failure", Undefined),
              cars |-> cars]
      ELSE [user |-> a.user, calls |-> <<Call("f1_cars.delete", o)>>,
            resp |-> sendSuccess(NullData, "Car deleted", 200),
            cars |-> [cars EXCEPT ![key] = NoRow]]

(***************************************************************************)
(* The state machine.                                                      *)
(***************************************************************************)
Init ==
  /\ now = 0
  /\ accounts = [e \in Emails |-> NoAccount]
  /\ profiles = [u \in UserIds |-> NoProfile]
  /\ cars = [k \in Keys |-> NoRow]
  /\ issued = {}
  /\ last = Idle

\* the wall clock that jwt.sign and jwt.verify read moves on
Tick ==
  /\ last = Idle
  /\ now + TickSeconds <= MaxTicks * TickSeconds
  /\ now' = now + TickSeconds
  /\ UNCHANGED <<accounts, profiles, cars, issued, last>>

\* the owner of an account follows the verification link of the provider
ConfirmEmail ==
  \E e \in Emails :
    /\ last = Idle
    /\ accounts[e].exists
    /\ ~accounts[e].confirmed
    /\ accounts' = [accounts EXCEPT ![e].confirmed = TRUE]
    /\ UNCHANGED <<now, profiles, cars, issued, last>>

\* a profile row is written outside this service (an admin panel, a
\* post-verification process): created, or its role changed
SetProfile ==
  \E u \in UserIds, r \in Roles :
    /\ last = Idle
    /\ \E e \in Emails : UserId(e) = u /\ accounts[e].exists
    /\ profiles[u] # Profile(r)
    /\ profiles' = [profiles EXCEPT ![u] = Profile(r)]
    /\ UNCHANGED <<now, accounts, cars, issued, last>>

\* res.status(status).json(body) has written the response: the exchange is
\* over, and the service keeps nothing of it
Deliver ==
  /\ last # Idle
  /\ last' = Idle
  /\ UNCHANGED <<now, accounts, profiles, cars, issued>>

\* GET /api/
Welcome ==
  /\ last = Idle
  /\ last' = Exchange("GET /", <<>>, NoBody, NoKey, NoUser, <<>>, welcome)
  /\ UNCHANGED <<now, accounts, profiles, cars, issued>>

\* a request that no route matches
Unmatched ==
  /\ last = Idle
  /\ last' = Exchange("unmatched", <<>>, NoBody, NoKey, NoUser, <<>>,
                      notFoundMiddleware("Route GET /api/nothing not found"))
  /\ UNCHANGED <<now, accounts, profiles, cars, issued>>

\* a request whose body express.json() cannot parse: it passes the error on
MalformedJson ==
  /\ last = Idle
  /\ last' = Exchange("unparsed", <<>>, NoBody, NoKey, NoUser, <<>>,
                      errorMiddleware)
  /\ UNCHANGED <<now, accounts, profiles, cars, issued>>

Signup ==
  \E body \in SignupBodies :
    \E o \in SignUpOutcomes(Field(body, "email"), Field(body, "password")) :
     \E po \in OutcomesIf(o = "session") :
      LET r == signup(body, o, po)
      IN  /\ last = Idle
          /\ last' = Exchange("POST /auth/signup", <<>>, body, NoKey, NoUser,
                              r.calls, r.resp)
          /\ accounts' = r.accounts
          /\ profiles' = r.profiles
          /\ UNCHANGED <<now, cars, issued>>

Login ==
  \E body \in LoginBodies :
    \E si \in SignInResults(Field(body, "email"), Field(body, "password")) :
     \E po \in OutcomesIf(si.user # NoUser) :
      LET r == login(body, si, po)
          granted == IF r.grant = NoGrant THEN {} ELSE {r.grant}
      IN  /\ last = Idle
          /\ Cardinality(issued \cup granted) <= MaxIssued
          /\ last' = Exchange("POST /auth/login", <<>>, body, NoKey, NoUser,
                              r.calls, r.resp)
          /\ issued' = issued \cup granted
          /\ UNCHANGED <<now, accounts, profiles, cars>>

Me ==
  \E hdr \in Headers :
    \E o \in OutcomesIf(authenticateToken(hdr, now).next) :
    LET r == getMe(hdr, o)
    IN  /\ last = Idle
        /\ last' = Exchange("GET /me", hdr, NoBody, NoKey, r.user, r.calls, r.resp)
        /\ UNCHANGED <<now, accounts, profiles, cars, issued>>

ListCars ==
  \E hdr \in Headers :
    \E o \in OutcomesIf(authenticateToken(hdr, now).next) :
    LET r == listCars(hdr, o)
    IN  /\ last = Idle
        /\ last' = Exchange("GET /cars", hdr, NoBody, NoKey, r.user, r.calls, r.resp)
        /\ UNCHANGED <<now, accounts, profiles, cars, issued>>

CreateCar ==
  \E hdr \in Headers, body \in CreateBodies :
    \E o \in OutcomesIf(authenticateToken(hdr, now).next) :
    LET r == createCar(hdr, body, o)
    IN  /\ last = Idle
        /\ last' = Exchange("POST /cars", hdr, body, NoKey, r.user, r.calls, r.resp)
        /\ cars' = r.cars
        /\ UNCHANGED <<now, accounts, profiles, issued>>

GetCar ==
  \E hdr \in Headers, key \in Keys :
    \E o \in OutcomesIf(authenticateToken(hdr, now).next) :
    LET r == getCar(hdr, key, o)
    IN  /\ last = Idle
        /\ last' = Exchange("GET /cars/:id", hdr, NoBody, key, r.user, r.calls, r.resp)
        /\ UNCHANGED <<now, accounts, profiles, cars, issued>>

UpdateCar ==
  \E hdr \in Headers, key \in Keys, body \in UpdateBodies :
    \E o \in OutcomesIf(authenticateToken(hdr, now).next) :
    LET r == updateCar(hdr, key, body, o)
    IN  /\ last = Idle
        /\ last' = Exchange("PUT /cars/:id", hdr, body, key, r.user, r.calls, r.resp)
        /\ cars' = r.cars
        /\ UNCHANGED <<now, accounts, profiles, issued>>

DeleteCar ==
  \E hdr \in Headers, key \in Keys :
    \E o \in OutcomesIf(authenticateToken(hdr, now).next) :
    LET r == deleteCar(hdr, key, o)
    IN  /\ last = Idle
        /\ last' = Exchange("DELETE /cars/:id", hdr, NoBody, key, r.user, r.calls,
                            r.resp)
        /\ cars' = r.cars
        /\ UNCHANGED <<now, accounts, profiles, issued>>

Next ==
  \/ Tick
  \/ ConfirmEmail
  \/ SetProfile
  \/ Deliver
  \/ Welcome
  \/ Unmatched
  \/ MalformedJson
  \/ Signup
  \/ Login
  \/ Me
  \/ ListCars
  \/ CreateCar
  \/ GetCar
  \/ UpdateCar
  \/ DeleteCar

Spec == Init /\ [][Next]_vars

(***************************************************************************)
(* Vocabulary of the properties.                                           *)
(***************************************************************************)
ProtectedRoutes ==
  {"GET /me", "GET /cars", "POST /cars", "GET /cars/:id", "PUT /cars/:id",
   "DELETE /cars/:id"}
KeyRoutes == {"GET /cars/:id", "PUT /cars/:id", "DELETE /cars/:id"}

Answered == last.route # "none"
Succeeded == Answered /\ last.resp.body.success
\* the error code of the response, "" for a success
ErrorCode ==
  IF Answered /\ ~last.resp.body.success THEN last.resp.body.error.code ELSE ""

\* the header is a scheme word, one space and a token
CarriesToken == Len(last.hdr) = 3
Presented == last.hdr[3]
\* the presented token is one login handed out, and its expiry lies ahead
Authentic ==
  /\ CarriesToken
  /\ Presented \in {e.token : e \in last.pre.issued}
  /\ last.time < Presented.exp
\* the request passed authenticateToken
PassedGate == last.route \in ProtectedRoutes /\ last.user # NoUser

\* the sample bodies that satisfy the declared schemas
ValidSignupBodies == {[email |-> EmailGood, password |-> PwGood, name |-> NameGood]}
ValidLoginBodies ==
  {[email |-> EmailGood, password |-> PwGood],
   [email |-> EmailGood, password |-> PwNoUpper]}
\* the provider's failure texts that speak of email confirmation
ConfirmationTexts == {MsgNotConfirmed, MsgConfirmFirst}

\* the Car Record schema of the specification: a created record names the
\* car, and no numeric field is negative
ViolatesCarSchema(route, body) ==
  \/ route = "POST /cars" /\ "car_name" \notin DOMAIN body
  \/ "rpm_limit" \in DOMAIN body /\ body.rpm_limit < 0

\* the role of the principal that login resolved
PrincipalRole(p) == IF p.profile.exists THEN p.profile.role ELSE "USER"

(***************************************************************************)
(* Properties.                                                             *)
(***************************************************************************)
\* C1: on every protected route the store is called only for a request whose
\* bearer token verifies (a token login issued, not yet expired); a request
\* without a token is answered 401 UNAUTHORIZED, a request with a malformed,
\* forged or expired token is answered INVALID_TOKEN, both without a call.
C1_GateBeforeStore ==
  last.route \in ProtectedRoutes =>
    /\ last.calls # <<>> => Authentic
    /\ ~CarriesToken =>
         /\ last.resp.status = 401
         /\ ErrorCode = "UNAUTHORIZED"
         /\ last.calls = <<>>
    /\ (CarriesToken /\ ~Authentic) =>
         /\ ErrorCode = "INVALID_TOKEN"
         /\ last.calls = <<>>

\* a token that login issued is presented after its expiry and is refused
C1_Witness ==
  /\ last.route \in ProtectedRoutes
  /\ CarriesToken
  /\ Presented \in IssuedTokens
  /\ last.time >= Presented.exp
  /\ ErrorCode = "INVALID_TOKEN"
  /\ last.calls = <<>>

\* C6: a token issued by login carries the principal resolved at issuance
\* (role from the profile, USER without one) and expires one hour later;
\* presented on a protected route before its expiry it yields these claims
\* whatever happened since, and from its expiry on it is refused.
C6_TokenLifetime ==
  \A e \in issued :
    /\ e.token.exp = e.token.iat + ExpiresIn
    /\ e.token.id = e.principal.id
    /\ e.token.email = e.principal.email
    /\ e.token.role = PrincipalRole(e.principal)
    /\ (last.route \in ProtectedRoutes /\ last.hdr = <<Word("Bearer"), SP, e.token>>) =>
         IF last.time < e.token.iat + ExpiresIn
           THEN /\ last.user # NoUser
                /\ last.user.id = e.principal.id
                /\ last.user.email = e.principal.email
                /\ last.user.role = PrincipalRole(e.principal)
                /\ last.calls # <<>>
           ELSE /\ last.user = NoUser
                /\ ErrorCode = "INVALID_TOKEN"
                /\ last.calls = <<>>

\* a token is accepted, with the role it was issued with, after time has
\* passed and the profile's role has changed
C6_Witness ==
  \E e \in issued :
    /\ last.route \in ProtectedRoutes
    /\ last.hdr = <<Word("Bearer"), SP, e.token>>
    /\ last.time > e.token.iat
    /\ last.user # NoUser
    /\ profiles[e.principal.id].exists
    /\ profiles[e.principal.id].role # last.user.role

\* C7: a schema-valid login that the provider rejects issues no token and is
\* answered 401: EMAIL_NOT_CONFIRMED exactly when the provider's text speaks
\* of confirmation, otherwise INVALID_CREDENTIALS with the fixed message.
C7_LoginRejection ==
  ( /\ last.route = "POST /auth/login"
    /\ last.body \in ValidLoginBodies
    /\ last.calls # <<>>
    /\ last.calls[1].outcome = "error" ) =>
    /\ Len(last.calls) = 1
    /\ issued = last.pre.issued
    /\ last.resp.status = 401
    /\ ~last.resp.body.success
    /\ ErrorCode = "EMAIL_NOT_CONFIRMED"
         <=> last.calls[1].message \in ConfirmationTexts
    /\ ErrorCode # "EMAIL_NOT_CONFIRMED" =>
         /\ ErrorCode = "INVALID_CREDENTIALS"
         /\ last.resp.body.error.message = "Invalid email or password"

\* the provider refuses the right password of an account whose email is not
\* confirmed yet
C7_Witness ==
  /\ last.route = "POST /auth/login"
  /\ last.body = [email |-> EmailGood, password |-> PwGood]
  /\ accounts[EmailGood].exists
  /\ ~accounts[EmailGood].confirmed
  /\ last.calls = <<Failed("auth.signInWithPassword", MsgNotConfirmed)>>
  /\ ErrorCode = "EMAIL_NOT_CONFIRMED"

\* C2: an authenticated GET, PUT or DELETE of /cars/:id on a key the
\* collection does not hold is answered 404 NOT_FOUND whenever the store
\* itself did not fail: never 500 DB_ERROR, never a success.
C2_AbsentKeyNotFound ==
  ( /\ last.route \in KeyRoutes
    /\ PassedGate
    /\ ~IsRow(last.pre.cars[last.key])
    /\ last.calls[1].outcome = "ok" ) =>
    /\ last.resp.status = 404
    /\ ErrorCode = "NOT_FOUND"

\* C3: an authenticated POST /cars or PUT /cars/:id whose body violates the
\* Car Record schema is answered 400 VALIDATION_ERROR before any store call,
\* and leaves the collection as it was.
C3_ValidateBeforeStore ==
  ( /\ last.route \in {"POST /cars", "PUT /cars/:id"}
    /\ PassedGate
    /\ ViolatesCarSchema(last.route, last.body) ) =>
    /\ last.resp.status = 400
    /\ ErrorCode = "VALIDATION_ERROR"
    /\ last.calls = <<>>
    /\ cars = last.pre.cars

\* C4: the success response to a valid signup holds a session token or says
\* that verification is pending.
C4_TokenOrPending ==
  ( /\ last.route = "POST /auth/signup"
    /\ last.body \in ValidSignupBodies
    /\ Succeeded ) =>
    \/ "token" \in DOMAIN last.resp.body.data
    \/ last.resp.body.message = PendingMessage

\* C5: a signup or login body that violates the endpoint's schema is answered
\* 400 VALIDATION_ERROR, and the identity provider is not called.
C5_SchemaBeforeProvider ==
  ( \/ last.route = "POST /auth/signup" /\ last.body \notin ValidSignupBodies
    \/ last.route = "POST /auth/login" /\ last.body \notin ValidLoginBodies ) =>
    /\ last.resp.status = 400
    /\ ErrorCode = "VALIDATION_ERROR"
    /\ last.calls = <<>>

\* C8: every request is answered with an envelope, {success, message, data}
\* or {success, error: {code, message, details}}; an unmatched route gets
\* NOT_FOUND, a handler that threw gets SERVER_ERROR.
C8_UniformEnvelope ==
  Answered =>
    /\ last.resp # NoResp
    /\ IF last.resp.body.success
         THEN DOMAIN last.resp.body = {"success", "message", "data"}
         ELSE /\ DOMAIN last.resp.body = {"success", "error"}
              /\ DOMAIN last.resp.body.error = {"code", "message", "details"}
    /\ last.route = "unmatched" => ErrorCode = "NOT_FOUND"
    /\ ( \/ last.route = "unparsed"
         \/ \E i \in 1..Len(last.calls) : last.calls[i].outcome = "throw" )
         => ErrorCode = "SERVER_ERROR"

\* C9: at any moment, presenting an expired token and presenting a corrupt
\* one (text that is no token, or a token signed with another key) draw the same
\* response from authenticateToken.
C9_SameRefusal ==
  \A e \in issued :
    now >= e.token.exp =>
      \A corrupt \in {Garbage, ForgedToken} :
        authenticateToken(<<Word("Bearer"), SP, e.token>>, now).resp
          = authenticateToken(<<Word("Bearer"), SP, corrupt>>, now).resp

\* C10: a signup answered SIGNUP_FAILED or PROFILE_CREATE_FAILED has left no
\* account at the provider, and a signup that has left one is answered with
\* a success.
C10_SignupAllOrNothing ==
  last.route = "POST /auth/signup" =>
    /\ ErrorCode \in {"SIGNUP_FAILED", "PROFILE_CREATE_FAILED"}
         => accounts = last.pre.accounts
    /\ accounts # last.pre.accounts => Succeeded

====
